---- MODULE Spec2Model ----
(***************************************************************************)
(* easyply: compilation of a compact grammar-rule notation into expanded   *)
(* PLY productions.                                                        *)
(*                                                                         *)
(* src/easyply/__init__.py is modelled operation by operation.  The rule   *)
(* model and the rule parser (easyply.nodes, easyply.parser) are imported  *)
(* by that file; their behaviour is taken from spec.md sections 3 and 4.   *)
(*                                                                         *)
(* Representation.                                                         *)
(*   - a text (docstring, rule string, formatted production) is the        *)
(*     sequence of its whitespace-separated tokens; "\n" is a line break;  *)
(*   - a term is a record [kind, symbol, name, terms]: kind "term" is a    *)
(*     Term, "named" a NamedTerm, "opt" an OptionalGroup;                  *)
(*   - a Rule is a record [lhs, terms];                                    *)
(*   - a Python identifier that the code inspects by characters            *)
(*     (str.startswith, '%' formatting) is the sequence of its characters. *)
(***************************************************************************)
EXTENDS Integers, Sequences, FiniteSets, TLC

\* ------------------------------------------------------------------ bounds

\* Most nodes (terms and optional groups) of a Rule object handed in alone.
MaxNodes == 4

\* Most nodes, in total, of the Rule objects of a list handed in, and most
\* nodes of a rule whose rendering is handed in as a string.
MaxListNodes == 3

\* Most entries a namespace handed to process_all holds.
MaxEntries == 3

\* ------------------------------------------------------- generic helpers

RECURSIVE ConcatAll(_)
ConcatAll(ss) ==
  IF ss = <<>> THEN <<>> ELSE Head(ss) \o ConcatAll(Tail(ss))

Range(s) == {s[i] : i \in 1..Len(s)}

\* Every sequence that lists each element of the finite set S exactly once.
RECURSIVE Orderings(_)
Orderings(S) ==
  IF S = {} THEN {<<>>}
  ELSE UNION {{<<e>> \o o : o \in Orderings(S \ {e})} : e \in S}

IsPrefix(p, s) == Len(p) <= Len(s) /\ SubSeq(s, 1, Len(p)) = p

\* ---------------------------------------------------- nodes: the rule model

Term(sym) == [kind |-> "term", symbol |-> sym, name |-> "", terms |-> <<>>]

NamedTerm(nm, sym) ==
  [kind |-> "named", symbol |-> sym, name |-> nm, terms |-> <<>>]

OptionalGroup(ts) == [kind |-> "opt", symbol |-> "", name |-> "", terms |-> ts]

Rule(lhs, ts) == [lhs |-> lhs, terms |-> ts]

\* Rule.flatten: unnest whatever group structure remains, keeping the order
\* and the identity (name, symbol) of every term.  A new value is returned.
RECURSIVE FlattenSeq(_)
FlattenSeq(ts) ==
  IF ts = <<>> THEN <<>>
  ELSE LET t == Head(ts)
       IN  (IF t.kind = "opt" THEN FlattenSeq(t.terms) ELSE <<t>>)
           \o FlattenSeq(Tail(ts))

flatten(rule) == Rule(rule.lhs, FlattenSeq(rule.terms))

\* Rule.expand_optionals: every resolution of the optional groups of a term
\* sequence, as a list.  The first group of the sequence is a binary choice:
\* excluded (nothing spliced in) or included (each resolution of its inner
\* sequence spliced in), combined with every resolution of the remainder.
\* The list is not deduplicated here.
RECURSIVE ExpandSeq(_)
ExpandSeq(ts) ==
  IF ts = <<>> THEN << <<>> >>
  ELSE LET t    == Head(ts)
           rest == ExpandSeq(Tail(ts))
       IN  IF t.kind # "opt"
           THEN [i \in 1..Len(rest) |-> <<t>> \o rest[i]]
           ELSE LET inner == ExpandSeq(t.terms)
                    n     == Len(rest)
                IN  rest \o
                    [k \in 1..(Len(inner) * n) |->
                       inner[((k - 1) \div n) + 1] \o rest[((k - 1) % n) + 1]]

rule_expand_optionals(rule) ==
  LET vs == ExpandSeq(rule.terms)
  IN  [i \in 1..Len(vs) |-> Rule(rule.lhs, vs[i])]

\* Rule.format: the production line "lhs : symbol1 symbol2 ...".  With
\* pure_ply the name of a NamedTerm is not emitted; without it the term is
\* rendered with its naming annotation, name = symbol.
RECURSIVE FormatSeq(_, _)
FormatSeq(ts, pure_ply) ==
  IF ts = <<>> THEN <<>>
  ELSE LET t == Head(ts)
       IN  (CASE t.kind = "opt" ->
                   <<"(">> \o FormatSeq(t.terms, pure_ply) \o <<")", "?">>
              [] t.kind = "named" /\ ~pure_ply -> <<t.name, "=", t.symbol>>
              [] OTHER -> <<t.symbol>>)
           \o FormatSeq(Tail(ts), pure_ply)

format(rule, pure_ply) == <<rule.lhs, ":">> \o FormatSeq(rule.terms, pure_ply)

\* ------------------------------------------------------ parser: text -> rules

Special == {":", "(", ")", "?", "=", "\n"}

\* term_seq from position i: [ok, terms, pos], pos the first token not
\* consumed (the end of the line, or a ")" the caller must account for).
RECURSIVE ParseTerms(_, _)
ParseTerms(toks, i) ==
  IF i > Len(toks) \/ toks[i] = ")"
  THEN [ok |-> TRUE, terms |-> <<>>, pos |-> i]
  ELSE IF toks[i] = "("
  THEN LET inner == ParseTerms(toks, i + 1)
       IN  IF inner.ok /\ inner.pos + 1 <= Len(toks)
              /\ toks[inner.pos] = ")" /\ toks[inner.pos + 1] = "?"
           THEN LET rest == ParseTerms(toks, inner.pos + 2)
                IN  [ok |-> rest.ok,
                     terms |-> <<OptionalGroup(inner.terms)>> \o rest.terms,
                     pos |-> rest.pos]
           ELSE [ok |-> FALSE, terms |-> <<>>, pos |-> i]
  ELSE IF toks[i] \in Special
  THEN [ok |-> FALSE, terms |-> <<>>, pos |-> i]
  ELSE IF i + 2 <= Len(toks) /\ toks[i + 1] = "="
          /\ toks[i + 2] \notin Special
  THEN LET rest == ParseTerms(toks, i + 3)
       IN  [ok |-> rest.ok,
            terms |-> <<NamedTerm(toks[i], toks[i + 2])>> \o rest.terms,
            pos |-> rest.pos]
  ELSE LET rest == ParseTerms(toks, i + 1)
       IN  [ok |-> rest.ok,
            terms |-> <<NamedTerm(toks[i], toks[i])>> \o rest.terms,
            pos |-> rest.pos]

\* rule := lhs ":" term_seq
ParseLine(toks) ==
  IF Len(toks) >= 2 /\ toks[1] \notin Special /\ toks[2] = ":"
  THEN LET r == ParseTerms(toks, 3)
       IN  IF r.ok /\ r.pos = Len(toks) + 1
           THEN [ok |-> TRUE, rules |-> <<Rule(toks[1], r.terms)>>]
           ELSE [ok |-> FALSE, rules |-> <<>>]
  ELSE [ok |-> FALSE, rules |-> <<>>]

\* The lines of a text, blank lines dropped.
RECURSIVE SplitLines(_, _)
SplitLines(toks, cur) ==
  IF toks = <<>> THEN (IF cur = <<>> THEN <<>> ELSE <<cur>>)
  ELSE IF Head(toks) = "\n"
  THEN (IF cur = <<>> THEN <<>> ELSE <<cur>>) \o SplitLines(Tail(toks), <<>>)
  ELSE SplitLines(Tail(toks), Append(cur, Head(toks)))

\* parser.parse: the rules of a text in input order; no partial result when
\* any line is malformed.
_parse(text) ==
  LET lines  == SplitLines(text, <<>>)
      parsed == [i \in 1..Len(lines) |-> ParseLine(lines[i])]
  IN  IF \A i \in 1..Len(lines) : parsed[i].ok
      THEN [exc |-> "none",
            rules |-> ConcatAll([i \in 1..Len(lines) |-> parsed[i].rules])]
      ELSE [exc |-> "ParseError", rules |-> <<>>]

\* --------------------------------------------------- values of the program

\* A value handed where a ruleset or a rule is expected is a Rule object, a
\* string, or a list of those.  An item is one Rule or one string.
NoRule == Rule("", <<>>)

RuleItem(r) == [isstr |-> FALSE, rule |-> r, text |-> <<>>]

StrItem(t) == [isstr |-> TRUE, rule |-> NoRule, text |-> t]

Single(item) == [islist |-> FALSE, items |-> <<item>>]

List(items) == [islist |-> TRUE, items |-> items]

\* A value bound in a namespace.  kind "func": a function object with its
\* identity, its __name__ (as characters) and its __doc__ (None, or a text).
\* kind "wrapper": a wrapper built by create_wrapper; functools.wraps gives
\* it the __name__ of the function it wraps (id is that function's identity),
\* its __doc__ is the production and terms are the terms of the flattened
\* rule it closes over.
Func(id, nm, hasdoc, doc) ==
  [kind |-> "func", id |-> id, name |-> nm, hasdoc |-> hasdoc, doc |-> doc,
   terms |-> <<>>]

Wrapper(func, terms, doc) ==
  [kind |-> "wrapper", id |-> func.id, name |-> func.name, hasdoc |-> TRUE,
   doc |-> doc, terms |-> terms]

NoValue == Func(0, <<>>, FALSE, <<>>)

\* ------------------------------------------------------------- __init__.py

\* _coerce_to_ruleset: a non-list is wrapped in a 1-tuple; each string is
\* parsed into its rules, anything else passed as-is; the pieces are chained.
\* An exception of the parser propagates.
_coerce_to_ruleset(ruleset) ==
  LET items == ruleset.items
      piece(it) == IF it.isstr THEN _parse(it.text)
                   ELSE [exc |-> "none", rules |-> <<it.rule>>]
  IN  IF \E i \in 1..Len(items) : piece(items[i]).exc # "none"
      THEN [exc |-> "ParseError", rules |-> <<>>]
      ELSE [exc |-> "none",
            rules |-> ConcatAll([i \in 1..Len(items) |-> piece(items[i]).rules])]

\* _coerce_to_single_rule with the length test written "> 1": an empty
\* ruleset reaches ruleset[0].
coerce_single_rule_gt(rule) ==
  LET ruleset == _coerce_to_ruleset(rule)
  IN  IF ruleset.exc # "none"
      THEN [exc |-> ruleset.exc, carried |-> Single(StrItem(<<>>)), rule |-> NoRule]
      ELSE IF Len(ruleset.rules) > 1
      THEN [exc |-> "SingleRuleExpectedError", carried |-> rule, rule |-> NoRule]
      ELSE IF Len(ruleset.rules) = 0
      THEN [exc |-> "IndexError", carried |-> Single(StrItem(<<>>)), rule |-> NoRule]
      ELSE [exc |-> "none", carried |-> Single(StrItem(<<>>)),
            rule |-> ruleset.rules[1]]

\* _coerce_to_single_rule: the only rule of the coerced ruleset;
\* SingleRuleExpectedError(rule) when its length is not 1.
_coerce_to_single_rule(rule) ==
  LET ruleset == _coerce_to_ruleset(rule)
  IN  IF ruleset.exc # "none"
      THEN [exc |-> ruleset.exc, carried |-> Single(StrItem(<<>>)), rule |-> NoRule]
      ELSE IF Len(ruleset.rules) # 1
      THEN [exc |-> "SingleRuleExpectedError", carried |-> rule, rule |-> NoRule]
      ELSE [exc |-> "none", carried |-> Single(StrItem(<<>>)),
            rule |-> ruleset.rules[1]]

\* process_rule in which the comprehension's body reads the outer rule:
\* every variant renders as the whole rule, flattened.
process_rule_outer(rule, fmt, pure_ply) ==
  IF fmt THEN {<<format(flatten(rule), pure_ply)>>} ELSE {<<flatten(rule)>>}

\* process_rule without set(): one entry per variant.
process_rule_noset(rule, fmt, pure_ply) ==
  LET rules == rule_expand_optionals(rule)
  IN  IF fmt
      THEN {[i \in 1..Len(rules) |-> format(flatten(rules[i]), pure_ply)]}
      ELSE {[i \in 1..Len(rules) |-> flatten(rules[i])]}

\* process_rule (inner function of expand_optionals): the distinct
\* flattened(+formatted) variants of one rule.  list(set(...)) fixes no order:
\* the operator gives every list the call may return.
process_rule(rule, fmt, pure_ply) ==
  LET rules == rule_expand_optionals(rule)
  IN  IF fmt
      THEN Orderings({format(flatten(rules[i]), pure_ply) : i \in 1..Len(rules)})
      ELSE Orderings({flatten(rules[i]) : i \in 1..Len(rules)})

\* Every way to pick one list per position and chain them, in order.
RECURSIVE ChainChoices(_)
ChainChoices(choices) ==
  IF choices = <<>> THEN {<<>>}
  ELSE {h \o t : h \in Head(choices), t \in ChainChoices(Tail(choices))}

\* expand_optionals with the set taken over the whole ruleset's results.
expand_optionals_global(ruleset, fmt, pure_ply) ==
  LET rs == _coerce_to_ruleset(ruleset)
  IN  IF rs.exc # "none" THEN {[exc |-> rs.exc, out |-> <<>>]}
      ELSE {[exc |-> "none", out |-> o] :
              o \in Orderings(UNION {Range(l) :
                         l \in UNION {process_rule(rs.rules[i], fmt, pure_ply) :
                                        i \in 1..Len(rs.rules)}})}

\* expand_optionals: the results of process_rule chained in ruleset order.
\* Every result the call may have: [exc, out].
expand_optionals(ruleset, fmt, pure_ply) ==
  LET rs == _coerce_to_ruleset(ruleset)
  IN  IF rs.exc # "none" THEN {[exc |-> rs.exc, out |-> <<>>]}
      ELSE {[exc |-> "none", out |-> o] :
              o \in ChainChoices([i \in 1..Len(rs.rules) |->
                                    process_rule(rs.rules[i], fmt, pure_ply)])}

\* create_wrapper without the call of flatten.
create_wrapper_unflattened(rule, func) ==
  LET one == _coerce_to_single_rule(rule)
  IN  IF one.exc # "none"
      THEN [exc |-> one.exc, w |-> NoValue]
      ELSE [exc |-> "none",
            w |-> Wrapper(func, one.rule.terms, format(one.rule, TRUE))]

\* create_wrapper: the rule is coerced to a single rule and flattened; the
\* wrapper closes over func and the flattened rule and carries the pure-PLY
\* production as its __doc__.
create_wrapper(rule, func) ==
  LET one == _coerce_to_single_rule(rule)
  IN  IF one.exc # "none"
      THEN [exc |-> one.exc, w |-> NoValue]
      ELSE LET flat == flatten(one.rule)
           IN  [exc |-> "none", w |-> Wrapper(func, flat.terms, format(flat, TRUE))]

\* The loop of wrapper(p) from term i on: kwargs[term.name] = p[i + 1] for
\* each NamedTerm, i counting from 0.  Slot k of p is p[k + 1] here.
RECURSIVE ExtractKwargs(_, _, _, _)
ExtractKwargs(terms, p, i, kwargs) ==
  IF i > Len(terms) THEN kwargs
  ELSE IF terms[i].kind = "named"
  THEN ExtractKwargs(terms, p, i + 1,
         [n \in (DOMAIN kwargs) \cup {terms[i].name} |->
            IF n = terms[i].name THEN p[i + 1] ELSE kwargs[n]])
  ELSE ExtractKwargs(terms, p, i + 1, kwargs)

EmptyDict == [n \in {} |-> ""]

\* wrapper(p): func is called with the extracted keyword arguments and its
\* return value is stored in slot 0.  [kwargs, p]: what func received and the
\* stack afterwards.
wrapper_call(w, p, retval) ==
  LET kwargs == ExtractKwargs(w.terms, p, 1, EmptyDict)
  IN  [kwargs |-> kwargs, p |-> [p EXCEPT ![1] = retval]]

\* str.strip on a text: leading and trailing line breaks go.
RECURSIVE Strip(_)
Strip(t) ==
  IF t = <<>> THEN t
  ELSE IF Head(t) = "\n" THEN Strip(Tail(t))
  ELSE IF t[Len(t)] = "\n" THEN Strip(SubSeq(t, 1, Len(t) - 1))
  ELSE t

\* parse(defn, fname): NoDocstringError for a missing or empty docstring,
\* else the rules of the stripped docstring.
parse(func) ==
  IF ~func.hasdoc \/ func.doc = <<>>
  THEN [exc |-> "NoDocstringError", rules |-> <<>>]
  ELSE _parse(Strip(func.doc))

Digit == <<"0", "1", "2", "3", "4", "5", "6", "7", "8", "9">>

\* '%s' of a non-negative integer, as characters.
RECURSIVE IntStr(_)
IntStr(i) ==
  IF i < Len(Digit) THEN <<Digit[i + 1]>>
  ELSE IntStr(i \div Len(Digit)) \o <<Digit[(i % Len(Digit)) + 1]>>

\* 'p_%s_%s' % (func.__name__, i)
WrapperName(fname, i) == <<"p", "_">> \o fname \o <<"_">> \o IntStr(i)

\* process_function: the docstring's rules are expanded (format=False) and
\* the i-th expanded rule, counting from 0, gets a wrapper under
\* p_<name>_<i>.  Every result the call may have: [exc, expanded, ret], ret
\* the returned dictionary as a function from names to wrappers and expanded
\* the list the loop ran over.
process_function(func) ==
  LET ruleset == parse(func)
  IN  IF ruleset.exc # "none"
      THEN {[exc |-> ruleset.exc, expanded |-> <<>>, ret |-> <<>>]}
      ELSE {[exc |-> "none", expanded |-> e.out,
             ret |-> [i \in 1..Len(e.out) |->
                        [key |-> WrapperName(func.name, i - 1),
                         val |-> create_wrapper(Single(RuleItem(e.out[i])), func).w]]] :
             e \in expand_optionals(List([j \in 1..Len(ruleset.rules) |->
                                            RuleItem(ruleset.rules[j])]),
                                    FALSE, TRUE)}

\* A namespace handed to process_all.  kind "dict": a dictionary, held in
\* own.  Otherwise an object behind ObjectWrapper: own holds the attributes
\* of the wrapped object itself and cls those of wrapped.__class__; kind
\* "instance" is an instance of a class, kind "class" a class, whose
\* __class__ is type.
Namespace(kind, own, cls) == [kind |-> kind, own |-> own, cls |-> cls]

Remove(f, k) == [n \in (DOMAIN f) \ {k} |-> f[n]]

Put(f, k, v) == [n \in (DOMAIN f) \cup {k} |-> IF n = k THEN v ELSE f[n]]

CharCode(c) ==
  CASE c = "0" -> 48 [] c = "1" -> 49 [] c = "2" -> 50 [] c = "_" -> 95
    [] c = "a" -> 97 [] c = "b" -> 98 [] c = "c" -> 99 [] c = "f" -> 102
    [] c = "p" -> 112
    [] c = "x" -> 120

\* a < b for two strings, as Python orders them.
RECURSIVE StrLess(_, _)
StrLess(a, b) ==
  IF b = <<>> THEN FALSE
  ELSE IF a = <<>> THEN TRUE
  ELSE IF Head(a) # Head(b) THEN CharCode(Head(a)) < CharCode(Head(b))
  ELSE StrLess(Tail(a), Tail(b))

\* sorted(S) for a set of strings.
RECURSIVE Sorted(_)
Sorted(S) ==
  IF S = {} THEN <<>>
  ELSE LET m == CHOOSE a \in S : \A b \in S \ {a} : StrLess(a, b)
       IN  <<m>> \o Sorted(S \ {m})

\* The names the namespace shows: the keys of a dictionary; dir(wrapped)
\* for an object, which for an instance lists its own attributes and those
\* of its class, and for a class its own.
Names(ns) ==
  IF ns.kind = "instance" THEN (DOMAIN ns.own) \cup (DOMAIN ns.cls)
  ELSE DOMAIN ns.own

\* namespace[key]: the dictionary's value; ObjectWrapper.__getitem__ is
\* getattr(wrapped, key), which finds the object's own attribute first.
GetItem(ns, key) ==
  IF key \in DOMAIN ns.own THEN ns.own[key] ELSE ns.cls[key]

\* namespace.items(): a dictionary iterates in the order its keys were
\* inserted, which the caller chose; ObjectWrapper.items follows dir(), which
\* is sorted.  Every list of (key, value) the call may give.
Items(ns) ==
  LET pairs(order) == [i \in 1..Len(order) |->
                         [key |-> order[i], val |-> GetItem(ns, order[i])]]
  IN  IF ns.kind = "dict" THEN {pairs(o) : o \in Orderings(Names(ns))}
      ELSE {pairs(Sorted(Names(ns)))}

RECURSIVE Filter(_, _)
Filter(items, prefix) ==
  IF items = <<>> THEN <<>>
  ELSE (IF IsPrefix(prefix, Head(items).key) THEN <<Head(items)>> ELSE <<>>)
       \o Filter(Tail(items), prefix)

\* get_rules: the items whose key starts with prefix, as a list.
get_rules(dictionary, prefix) == {Filter(its, prefix) : its \in Items(dictionary)}

\* del namespace[key]: a dictionary drops the key; ObjectWrapper.__delitem__
\* is delattr(wrapped.__class__, key), which raises AttributeError when the
\* class has no such attribute of its own and TypeError on type.
DelItem(ns, key) ==
  CASE ns.kind = "dict" ->
         [exc |-> "none", ns |-> [ns EXCEPT !.own = Remove(ns.own, key)]]
    [] ns.kind = "instance" ->
         IF key \in DOMAIN ns.cls
         THEN [exc |-> "none", ns |-> [ns EXCEPT !.cls = Remove(ns.cls, key)]]
         ELSE [exc |-> "AttributeError", ns |-> ns]
    [] ns.kind = "class" -> [exc |-> "TypeError", ns |-> ns]

\* namespace[key] = value: the dictionary's key; ObjectWrapper.__setitem__ is
\* setattr(wrapped, key, value).
SetItem(ns, key, value) == [ns EXCEPT !.own = Put(ns.own, key, value)]

\* for name, wrapper in process_function(func).items(): namespace[name] = wrapper
RECURSIVE InstallAll(_, _)
InstallAll(ns, items) ==
  IF items = <<>> THEN ns
  ELSE InstallAll(SetItem(ns, Head(items).key, Head(items).val), Tail(items))

\* ------------------------------------------------------------ input pools

Atoms == {Term("A"), NamedTerm("a", "A"), NamedTerm("b", "B")}

\* The term sequences of exactly n nodes; an optional group holds at least
\* one node.
SeqsOf[n \in 0..MaxNodes] ==
  IF n = 0 THEN {<<>>}
  ELSE UNION {
         {<<t>> \o r :
            t \in (IF k = 1 THEN Atoms
                   ELSE {OptionalGroup(g) : g \in SeqsOf[k - 1]}),
            r \in SeqsOf[n - k]} : k \in 1..n}

RulesUpTo(n) == {Rule("x", ts) : ts \in UNION {SeqsOf[k] : k \in 0..n}}

RulePairsUpTo(n) ==
  UNION {{<<Rule("x", a), Rule("x", b)>> : a \in SeqsOf[i], b \in SeqsOf[j]} :
           <<i, j>> \in {q \in (0..n) \X (0..n) : q[1] + q[2] <= n}}

FixedTexts ==
  { <<>>,
    <<"\n">>,
    <<"production", ":", "SYM", "another", "(", "SYM", "another", ")", "?">>,
    <<"x", ":", "A", "(", "B", "(", "C", ")", "?", ")", "?">>,
    <<"x", ":", "A", "(">>,
    <<"x", "A">>,
    <<"x", ":", "A", "\n", "y", ":", "B", "(", "C", ")", "?">>,
    <<"\n", "x", ":", "n", "=", "A", "(", "B", ")", "?", "\n">> }

Texts == FixedTexts \cup {format(r, FALSE) : r \in RulesUpTo(MaxListNodes)}

Inputs ==
  {Single(RuleItem(r)) : r \in RulesUpTo(MaxNodes)}
  \cup {Single(StrItem(t)) : t \in Texts}
  \cup {List(<<>>)}
  \cup {List(<<RuleItem(r)>>) : r \in RulesUpTo(MaxListNodes)}
  \cup {List(<<RuleItem(q[1]), RuleItem(q[2])>>) : q \in RulePairsUpTo(MaxListNodes)}
  \cup {List(<<StrItem(t), RuleItem(Rule("x", <<Term("A")>>))>>) : t \in FixedTexts}
  \cup {List(<<StrItem(t), StrItem(u)>>) : t \in FixedTexts, u \in FixedTexts}

\* The names and values a namespace is filled from.  KeyW is the name the
\* first wrapper of a function called px_a gets.
KeyA == <<"p", "x", "_", "a">>
KeyB == <<"p", "x", "_", "b">>
KeyC == <<"p", "x", "_", "c">>
KeyW == <<"p", "_", "p", "x", "_", "a", "_", "0">>

Keys == {KeyA, KeyB, KeyC, KeyW}

\* The default prefix, and one that only some of the px_ names start with.
Prefixes == {<<"p", "x", "_">>, <<"p", "x", "_", "a">>}

FuncA == Func(1, KeyA, TRUE, <<"x", ":", "A", "(", "B", ")", "?">>)
FuncA2 == Func(2, KeyA, TRUE, <<"y", ":", "C">>)
FuncNoDoc == Func(3, KeyB, FALSE, <<>>)
FuncBad == Func(4, KeyB, TRUE, <<"x", ":", "A", "(">>)

Values == {FuncA, FuncA2, FuncNoDoc, FuncBad}

\* The bindings of at most n names.
Bindings(n) ==
  UNION {[D -> Values] : D \in {S \in SUBSET Keys : Cardinality(S) <= n}}

Namespaces ==
  {Namespace(k, own, <<>>) : k \in {"dict", "class"}, own \in Bindings(MaxEntries)}
  \cup {Namespace("instance", q[1], q[2]) :
          q \in {r \in Bindings(MaxEntries) \X Bindings(MaxEntries) :
                   Cardinality(DOMAIN r[1]) + Cardinality(DOMAIN r[2])
                     <= MaxEntries}}

\* The function the rule operations are exercised with.
TheFunc(doc) == Func(1, <<"p", "x", "_", "f">>, TRUE, doc)

StackValues == {"v1", "v2"}

\* The parse stacks the backend hands a production of n symbols: slot 0 for
\* the result, slots 1..n populated.
Stacks(n) == {<<"empty">> \o vs : vs \in [1..n -> StackValues]}

\* ------------------------------------------------------------------ state

VARIABLES
  pc,        \* rule operations: "start", then the operation that ran
  arg,       \* the value handed in as ruleset or rule
  fmt,       \* expand_optionals' format argument
  pure,      \* expand_optionals' pure_ply argument
  expanded,  \* result of expand_optionals: [exc, out]
  single,    \* result of _coerce_to_single_rule: [exc, carried, rule]
  made,      \* result of create_wrapper: [exc, w]
  pf,        \* result of process_function: [exc, expanded, ret]
  stack,     \* the parse stack p after a wrapper call
  stack0,    \* the parse stack p before that call
  kwargs,    \* the keyword arguments func received in that call
  apc,        \* process_all: "idle", "loop", "returned" or "raised"
  namespace,  \* the namespace process_all works on
  namespace0, \* that namespace as it was handed in
  prefix,     \* process_all's prefix argument
  pending,    \* the items of get_rules the loop has not reached yet
  done,       \* the items the loop has completed, each with its wrappers
  failed,     \* the items (at most one) whose processing raised
  aexc        \* the exception process_all raised

rvars == <<pc, arg, fmt, pure, expanded, single, made, pf, stack, stack0, kwargs>>

avars == <<apc, namespace, namespace0, prefix, pending, done, failed, aexc>>

vars == <<rvars, avars>>

NoExpanded == [exc |-> "unset", out |-> <<>>]
NoSingle == [exc |-> "unset", carried |-> Single(StrItem(<<>>)), rule |-> NoRule]
NoMade == [exc |-> "unset", w |-> NoValue]
NoPf == [exc |-> "unset", expanded |-> <<>>, ret |-> <<>>]

InitRules ==
  /\ pc = "start"
  /\ arg \in Inputs
  /\ fmt = TRUE
  /\ pure = TRUE
  /\ expanded = NoExpanded
  /\ single = NoSingle
  /\ made = NoMade
  /\ pf = NoPf
  /\ stack = <<>>
  /\ stack0 = <<>>
  /\ kwargs = EmptyDict
  /\ apc = "idle"
  /\ namespace = Namespace("dict", <<>>, <<>>)
  /\ namespace0 = namespace
  /\ prefix = <<"p", "x", "_">>
  /\ pending = <<>>
  /\ done = <<>>
  /\ failed = <<>>
  /\ aexc = "none"

\* expand_optionals(arg, format, pure_ply)
ExpandOptionals ==
  /\ pc = "start"
  /\ \E f \in BOOLEAN, pp \in BOOLEAN :
       /\ fmt' = f
       /\ pure' = pp
       /\ expanded' \in expand_optionals(arg, f, pp)
  /\ pc' = "expanded"
  /\ UNCHANGED <<arg, single, made, pf, stack, stack0, kwargs>>
  /\ UNCHANGED avars

\* _coerce_to_single_rule(arg)
CoerceToSingleRule ==
  /\ pc = "start"
  /\ single' = _coerce_to_single_rule(arg)
  /\ pc' = "coerced"
  /\ UNCHANGED <<arg, fmt, pure, expanded, made, pf, stack, stack0, kwargs>>
  /\ UNCHANGED avars

\* create_wrapper(arg, func)
CreateWrapper ==
  /\ pc = "start"
  /\ made' = create_wrapper(arg, TheFunc(<<>>))
  /\ pc' = "wrapped"
  /\ UNCHANGED <<arg, fmt, pure, expanded, single, pf, stack, stack0, kwargs>>
  /\ UNCHANGED avars

\* wrapper(p), for the wrapper create_wrapper returned
CallWrapper ==
  /\ pc = "wrapped"
  /\ made.exc = "none"
  /\ \E p \in Stacks(Len(made.w.terms)) :
       LET r == wrapper_call(made.w, p, "result")
       IN  /\ stack0' = p
           /\ stack' = r.p
           /\ kwargs' = r.kwargs
  /\ pc' = "called"
  /\ UNCHANGED <<arg, fmt, pure, expanded, single, made, pf>>
  /\ UNCHANGED avars

\* process_function(func), func a function whose docstring is the string arg
ProcessFunction ==
  /\ pc = "start"
  /\ ~arg.islist
  /\ arg.items[1].isstr
  /\ pf' \in process_function(TheFunc(arg.items[1].text))
  /\ pc' = "processed"
  /\ UNCHANGED <<arg, fmt, pure, expanded, single, made, stack, stack0, kwargs>>
  /\ UNCHANGED avars

NextRules ==
  \/ ExpandOptionals
  \/ CoerceToSingleRule
  \/ CreateWrapper
  \/ CallWrapper
  \/ ProcessFunction

SpecRules == InitRules /\ [][NextRules]_vars

\* ------------------------------------------------------------ process_all

InitAll ==
  /\ pc = "idle"
  /\ arg = List(<<>>)
  /\ fmt = TRUE
  /\ pure = TRUE
  /\ expanded = NoExpanded
  /\ single = NoSingle
  /\ made = NoMade
  /\ pf = NoPf
  /\ stack = <<>>
  /\ stack0 = <<>>
  /\ kwargs = EmptyDict
  /\ apc = "idle"
  /\ namespace \in Namespaces
  /\ namespace0 = namespace
  /\ prefix \in Prefixes
  /\ pending = <<>>
  /\ done = <<>>
  /\ failed = <<>>
  /\ aexc = "none"

\* process_all(namespace, prefix) up to the loop: an object that is no
\* dictionary is put behind ObjectWrapper, and get_rules builds the list the
\* loop runs over.
ProcessAllCall ==
  /\ apc = "idle"
  /\ pending' \in get_rules(namespace, prefix)
  /\ apc' = "loop"
  /\ UNCHANGED <<namespace, namespace0, prefix, done, failed, aexc>>
  /\ UNCHANGED rvars

\* One round of the loop in which del namespace[f_name] raises.
LoopDeleteRaises ==
  /\ apc = "loop"
  /\ pending # <<>>
  /\ DelItem(namespace, Head(pending).key).exc # "none"
  /\ aexc' = DelItem(namespace, Head(pending).key).exc
  /\ apc' = "raised"
  /\ pending' = Tail(pending)
  /\ UNCHANGED <<namespace, namespace0, prefix, done, failed>>
  /\ UNCHANGED rvars

\* One round of the loop in which process_function(func) raises: the entry
\* is deleted already.
LoopProcessRaises ==
  /\ apc = "loop"
  /\ pending # <<>>
  /\ DelItem(namespace, Head(pending).key).exc = "none"
  /\ \E res \in process_function(Head(pending).val) :
       /\ res.exc # "none"
       /\ aexc' = res.exc
  /\ namespace' = DelItem(namespace, Head(pending).key).ns
  /\ failed' = <<Head(pending)>>
  /\ apc' = "raised"
  /\ pending' = Tail(pending)
  /\ UNCHANGED <<namespace0, prefix, done>>
  /\ UNCHANGED rvars

\* One complete round of the loop: the entry is deleted, its function
\* processed and every wrapper of the result installed.
LoopInstall ==
  /\ apc = "loop"
  /\ pending # <<>>
  /\ DelItem(namespace, Head(pending).key).exc = "none"
  /\ \E res \in process_function(Head(pending).val) :
       /\ res.exc = "none"
       /\ namespace' = InstallAll(DelItem(namespace, Head(pending).key).ns, res.ret)
       /\ done' = Append(done, [key |-> Head(pending).key,
                                val |-> Head(pending).val,
                                n |-> Len(res.expanded)])
  /\ pending' = Tail(pending)
  /\ UNCHANGED <<apc, namespace0, prefix, failed, aexc>>
  /\ UNCHANGED rvars

\* The loop has run over every item: process_all returns.
ProcessAllReturn ==
  /\ apc = "loop"
  /\ pending = <<>>
  /\ apc' = "returned"
  /\ UNCHANGED <<namespace, namespace0, prefix, pending, done, failed, aexc>>
  /\ UNCHANGED rvars

NextAll ==
  \/ ProcessAllCall
  \/ LoopDeleteRaises
  \/ LoopProcessRaises
  \/ LoopInstall
  \/ ProcessAllReturn

SpecAll == InitAll /\ [][NextAll]_vars

\* ------------------------------------------------- reference definitions

\* The optional groups of a term sequence, each named by its path: the
\* positions leading to it, outermost first.
RECURSIVE GroupPaths(_, _)
GroupPaths(ts, at) ==
  UNION {IF ts[i].kind = "opt"
         THEN {Append(at, i)} \cup GroupPaths(ts[i].terms, Append(at, i))
         ELSE {} : i \in 1..Len(ts)}

\* The terms left when exactly the groups of sel are present: a group that
\* is absent takes everything inside it along.
RECURSIVE Resolve(_, _, _)
Resolve(ts, at, sel) ==
  ConcatAll([i \in 1..Len(ts) |->
               IF ts[i].kind # "opt" THEN <<ts[i]>>
               ELSE IF Append(at, i) \in sel
               THEN Resolve(ts[i].terms, Append(at, i), sel)
               ELSE <<>>])

\* A choice of groups in which every chosen group's enclosing group is chosen.
AncestorClosed(sel) ==
  \A q \in sel : Len(q) > 1 => SubSeq(q, 1, Len(q) - 1) \in sel

Symbols(ts) == [i \in 1..Len(ts) |-> ts[i].symbol]

\* The group at path q of a term sequence.
RECURSIVE GroupAt(_, _)
GroupAt(ts, q) ==
  IF Len(q) = 1 THEN ts[q[1]] ELSE GroupAt(ts[q[1]].terms, Tail(q))

\* The groups are nested one in the other: a chain.
IsChain(ts) ==
  LET G == GroupPaths(ts, <<>>)
  IN  \A q \in G, r \in G : IsPrefix(q, r) \/ IsPrefix(r, q)

\* Every group holds a term of its own, outside any group nested in it.
OwnTerms(ts) ==
  \A q \in GroupPaths(ts, <<>>) :
    \E i \in 1..Len(GroupAt(ts, q).terms) : GroupAt(ts, q).terms[i].kind # "opt"

\* arg coerces to exactly one rule, which is then TheRule.
OneRule ==
  LET rs == _coerce_to_ruleset(arg) IN rs.exc = "none" /\ Len(rs.rules) = 1

TheRule == _coerce_to_ruleset(arg).rules[1]

NoDuplicates(list) ==
  \A i \in 1..Len(list), j \in 1..Len(list) : i # j => list[i] # list[j]

\* --------------------------------------------------------------- claims

\* C1: a rule whose k optional groups are all top-level, and whose 2^k
\* choices of groups give pairwise different symbol sequences, expands with
\* format=True to exactly 2^k pairwise distinct strings, one per choice of
\* groups; with k = 0 that is the one string format(flatten(rule)).
C1_ExpansionCount ==
  (pc = "expanded" /\ fmt /\ pure /\ OneRule) =>
    LET r == TheRule
        G == GroupPaths(r.terms, <<>>)
        line(sel) == <<r.lhs, ":">> \o Symbols(Resolve(r.terms, <<>>, sel))
    IN  ((\A q \in G : Len(q) = 1)
         /\ \A s1 \in SUBSET G, s2 \in SUBSET G : s1 # s2 => line(s1) # line(s2))
        => /\ expanded.exc = "none"
           /\ Len(expanded.out) = 2 ^ Cardinality(G)
           /\ NoDuplicates(expanded.out)
           /\ Range(expanded.out) = {line(sel) : sel \in SUBSET G}
           /\ (G = {} => expanded.out = <<format(flatten(r), TRUE)>>)

C1_Witness ==
  /\ pc = "expanded" /\ fmt /\ pure /\ OneRule
  /\ TheRule.terms = <<OptionalGroup(<<Term("A")>>),
                       OptionalGroup(<<NamedTerm("b", "B")>>)>>
  /\ Len(expanded.out) = 4

\* C2 as stated: the results of a rule with nested groups are exactly the
\* resolutions in which no group is present without the groups enclosing
\* it, and a chain of d nested groups gives exactly d + 1 results.
C2_ChainCount ==
  (pc = "expanded" /\ OneRule) =>
    LET r == TheRule
        G == GroupPaths(r.terms, <<>>)
    IN  /\ Range(expanded.out)
             = {IF fmt THEN format(Rule(r.lhs, Resolve(r.terms, <<>>, sel)), pure)
                ELSE Rule(r.lhs, Resolve(r.terms, <<>>, sel)) :
                  sel \in {s \in SUBSET G : AncestorClosed(s)}}
        /\ IsChain(r.terms) => Len(expanded.out) = Cardinality(G) + 1

\* C2 as amended: the same, the count d + 1 being claimed for a chain whose
\* groups each hold at least one term of their own.
C2_NestedExpansion ==
  (pc = "expanded" /\ OneRule) =>
    LET r == TheRule
        G == GroupPaths(r.terms, <<>>)
    IN  /\ Range(expanded.out)
             = {IF fmt THEN format(Rule(r.lhs, Resolve(r.terms, <<>>, sel)), pure)
                ELSE Rule(r.lhs, Resolve(r.terms, <<>>, sel)) :
                  sel \in {s \in SUBSET G : AncestorClosed(s)}}
        /\ (IsChain(r.terms) /\ OwnTerms(r.terms))
             => Len(expanded.out) = Cardinality(G) + 1

C2_Witness ==
  /\ pc = "expanded" /\ ~fmt /\ OneRule
  /\ TheRule.terms = <<OptionalGroup(<<NamedTerm("b", "B"),
                                           OptionalGroup(<<Term("A")>>)>>)>>
  /\ Len(expanded.out) = 3

\* C3: the list expand_optionals(rule, format=True) returns for one rule
\* holds no string twice, also when several choices of groups flatten to
\* the same term sequence.
C3_NoDuplicateStrings ==
  (pc = "expanded" /\ fmt /\ OneRule) => NoDuplicates(expanded.out)

C3_Witness ==
  /\ pc = "expanded" /\ fmt /\ OneRule
  /\ TheRule.terms = <<OptionalGroup(<<NamedTerm("b", "B")>>),
                       OptionalGroup(<<NamedTerm("b", "B")>>)>>
  /\ Len(expanded.out) = 3
  /\ Len(rule_expand_optionals(TheRule)) = 4

\* The number of rules a value holds, counted without coercing it: one per
\* Rule object, one per non-blank line of a string.
RECURSIVE CountRules(_)
CountRules(items) ==
  IF items = <<>> THEN 0
  ELSE (IF Head(items).isstr THEN Len(SplitLines(Head(items).text, <<>>)) ELSE 1)
       + CountRules(Tail(items))

\* C4: _coerce_to_single_rule returns the rule when the value coerces to
\* exactly one rule, and raises SingleRuleExpectedError carrying the value
\* handed in when it coerces to none or to several; it never returns a rule
\* then and never raises that error for exactly one rule.
C4_SingleRuleCoercion ==
  (pc = "coerced" /\ single.exc # "ParseError") =>
    IF CountRules(arg.items) = 1
    THEN /\ single.exc = "none"
         /\ \A i \in 1..Len(arg.items) :
              ~arg.items[i].isstr => single.rule = arg.items[i].rule
    ELSE /\ single.exc = "SingleRuleExpectedError"
         /\ single.carried = arg
         /\ single.rule = NoRule

C4_Witness ==
  /\ pc = "coerced"
  /\ arg = Single(StrItem(<<>>))
  /\ single.exc = "SingleRuleExpectedError"
  /\ single.carried = arg

NamedPositions(ts) == {i \in 1..Len(ts) : ts[i].kind = "named"}

DuplicateNames(ts) ==
  \E i \in NamedPositions(ts), j \in NamedPositions(ts) :
    i # j /\ ts[i].name = ts[j].name

\* C5: in a call wrapper(p), func receives for every position i of the
\* flattened rule that holds a NamedTerm the keyword argument of that term's
\* name with the value of slot i + 1 (i counted from 0), and nothing else;
\* slot 0 receives func's return value and no other slot is written.
C5_KeywordExtraction ==
  (pc = "called") =>
    LET ts == made.w.terms
    IN  /\ DOMAIN kwargs = {ts[i].name : i \in NamedPositions(ts)}
        /\ \A i \in NamedPositions(ts) : kwargs[ts[i].name] = stack0[i + 1]
        /\ stack[1] = "result"
        /\ \A k \in 2..Len(stack0) : stack[k] = stack0[k]
        /\ Len(stack) = Len(stack0)

\* C6: a flattened rule in which two NamedTerms share a name is rejected:
\* no wrapper for it is ever called through to func.
C6_DuplicateNamesRejected ==
  (pc = "called") => ~DuplicateNames(made.w.terms)

\* C7: flatten is idempotent and keeps order and terms, so flattening an
\* expanded variant again changes nothing: the wrapper process_function
\* builds for the i-th variant closes over that variant's own term list and
\* has its pure-PLY production as __doc__; a wrapper built from any single
\* rule closes over the flattened rule.
C7_FlattenIdempotent ==
  /\ OneRule =>
       /\ flatten(flatten(TheRule)) = flatten(TheRule)
       /\ \A sel \in SUBSET GroupPaths(TheRule.terms, <<>>) :
            flatten(Rule("x", Resolve(TheRule.terms, <<>>, sel))).terms
              = Resolve(TheRule.terms, <<>>, sel)
  /\ (pc = "processed" /\ pf.exc = "none") =>
       /\ Len(pf.ret) = Len(pf.expanded)
       /\ \A i \in 1..Len(pf.ret) :
            /\ pf.ret[i].val.kind = "wrapper"
            /\ pf.ret[i].val.terms = pf.expanded[i].terms
            /\ pf.ret[i].val.doc = format(pf.expanded[i], TRUE)
  /\ (pc = "wrapped" /\ made.exc = "none") =>
       /\ made.w.terms = flatten(TheRule).terms
       /\ made.w.doc = format(flatten(TheRule), TRUE)

C7_Witness ==
  /\ pc = "processed" /\ pf.exc = "none"
  /\ Len(pf.ret) = 3
  /\ \E i \in 1..3 : Len(pf.ret[i].val.terms) = 3
  /\ TheRule # flatten(TheRule)

\* The distinct results of one rule, as expand_optionals renders them.
ResultSet(r, f, pp) ==
  IF f THEN {format(Rule(r.lhs, Resolve(r.terms, <<>>, sel)), pp) :
               sel \in SUBSET GroupPaths(r.terms, <<>>)}
  ELSE {Rule(r.lhs, Resolve(r.terms, <<>>, sel)) :
          sel \in SUBSET GroupPaths(r.terms, <<>>)}

RECURSIVE SumTo(_, _)
SumTo(f, n) == IF n = 0 THEN 0 ELSE f[n] + SumTo(f, n - 1)

\* C9: for a ruleset of several rules the output is the per-rule result
\* lists one after the other in ruleset order, each free of duplicates in
\* itself only: its length is the sum of the per-rule counts of distinct
\* results, and a result two rules share appears once for each.
C9_PerRuleConcatenation ==
  (pc = "expanded" /\ expanded.exc = "none") =>
    LET rs  == _coerce_to_ruleset(arg).rules
        cnt == [i \in 1..Len(rs) |-> Cardinality(ResultSet(rs[i], fmt, pure))]
    IN  /\ Len(expanded.out) = SumTo(cnt, Len(rs))
        /\ \A i \in 1..Len(rs) :
             Range(SubSeq(expanded.out, SumTo(cnt, i - 1) + 1, SumTo(cnt, i)))
               = ResultSet(rs[i], fmt, pure)

C9_Witness ==
  /\ pc = "expanded" /\ expanded.exc = "none" /\ fmt
  /\ Len(_coerce_to_ruleset(arg).rules) = 2
  /\ Len(expanded.out) = 3
  /\ Cardinality(Range(expanded.out)) = 2

\* The names of the namespace bound to a wrapper.
WrapperNames(ns) == {k \in Names(ns) : GetItem(ns, k).kind = "wrapper"}

\* The wrappers of a completed item d are installed under p_<name>_0 ..
\* p_<name>_(n-1), n the number of its expanded variants.
Installed(ns, d) ==
  \A i \in 0..(d.n - 1) :
    /\ WrapperName(d.val.name, i) \in Names(ns)
    /\ GetItem(ns, WrapperName(d.val.name, i)).kind = "wrapper"
    /\ GetItem(ns, WrapperName(d.val.name, i)).id = d.val.id

RECURSIVE TotalVariants(_)
TotalVariants(ds) ==
  IF ds = <<>> THEN 0 ELSE Head(ds).n + TotalVariants(Tail(ds))

\* C8: when process_all has returned, no name that starts with the prefix
\* and was bound before the call is bound any more; every processed function
\* has its n wrappers under p_<name>_0 .. p_<name>_(n-1), the wrappers in
\* the namespace being as many as the expanded variants of all processed
\* functions; every other binding is as it was.
C8_ProcessAllPostcondition ==
  (apc = "returned") =>
    /\ \A k \in Names(namespace0) : IsPrefix(prefix, k) => k \notin Names(namespace)
    /\ \A i \in 1..Len(done) : Installed(namespace, done[i])
    /\ Cardinality(WrapperNames(namespace)) = TotalVariants(done)
    /\ \A k \in Names(namespace0) :
         ~IsPrefix(prefix, k) =>
           k \in Names(namespace) /\ GetItem(namespace, k) = GetItem(namespace0, k)

\* C10: when process_function raises for an item f, process_all raises with
\* f deleted and no wrapper of f installed, the items before f replaced by
\* their wrappers, and the items after f bound as before.
C10_FailureLeavesPartialState ==
  (apc = "raised" /\ failed # <<>>) =>
    LET f == failed[1]
    IN  /\ aexc \in {"NoDocstringError", "ParseError"}
        /\ f.key \notin Names(namespace)
        /\ \A k \in WrapperNames(namespace) : GetItem(namespace, k).id # f.val.id
        /\ \A i \in 1..Len(done) :
             done[i].key \notin Names(namespace) /\ Installed(namespace, done[i])
        /\ \A i \in 1..Len(pending) :
             /\ pending[i].key \in Names(namespace)
             /\ GetItem(namespace, pending[i].key) = pending[i].val

====
